---- MODULE Spec2Model ----
(***************************************************************************)
(* Model of src/banking_app.py: the accounts and transactions tables of    *)
(* bank.db, the Bank / Account classes that read and write them, and the   *)
(* banking_app button handlers that call the Bank operations.              *)
(*                                                                         *)
(* One action per button handler of banking_app. A handler runs to its end *)
(* (one script run, one connection). Amounts are the integers the          *)
(* number_input widgets deliver (their default values are ints and they    *)
(* set no min_value, so zero and negative numbers are delivered too).      *)
(*                                                                         *)
(* Four specifications:                                                    *)
(*   Spec         the banking page of one logged-in session, one action    *)
(*                per button handler;                                      *)
(*   SessionSpec  one session from the start of the program: the login     *)
(*                and create-user pages and the routing to the banking     *)
(*                page;                                                    *)
(*   StepSpec     Bank.deposit and Bank.withdraw statement by statement,   *)
(*                in two sessions that share bank.db;                      *)
(*   CrashSpec    the same statements in one session of a process that     *)
(*                may die between any two of them and be started again.    *)
(***************************************************************************)
EXTENDS Integers, Sequences, FiniteSets, TLC

\* ------------------------------------------------------------------ bounds
MaxTransactions == 2   \* rows of the transactions table
MaxApplied == 3        \* balance changes made to one account while the process keeps dying

\* ------------------------------------------------------------------ inputs
AccountNumbers == {"A1", "A2"}
Names == {"Alice", "Bob"}
\* (name, account number) pairs entered in the Create New Account form: the
\* name takes no part in any decision of the program, so two names for one
\* account number show whether a stored name is kept or replaced
Holders == {<<"Alice", "A1">>, <<"Bob", "A1">>, <<"Bob", "A2">>}
Amounts == {0 - 1, 0, 1}    \* numbers entered in a number_input
Timestamps == {0, 1}        \* values of CURRENT_TIMESTAMP, in seconds
Usernames == {"ann", "bob"}
Passwords == {"pw1", "pw2"}
Sessions == {1, 2}          \* browser sessions, one script thread each

\* --------------------------------------------------------------- constants
None == [kind |-> "None"]

Deposited == "Deposited"
Withdrawn == "Withdrawn"

MsgAccountExists == <<"warning", "Account already exists. Please choose a different account number.">>
MsgAccountCreated == <<"success", "Account created successfully.">>
MsgNoAccount == <<"error", "Account does not exist. Please enter a valid account number.">>
MsgInvalidDeposit == <<"warning", "Invalid deposit amount">>
MsgInsufficientFunds == <<"error", "Insufficient funds">>
MsgInvalidWithdrawal == <<"error", "Invalid withdrawal amount">>
MsgWithdrawn == <<"success", "Amount withdrawn successfully">>
MsgAccountNotFound == <<"warning", "Account not found">>
MsgNoTransactions == <<"warning", "No transactions found for this account.">>
MsgDeposited == <<"success", "Funds Deposited successfully">>
MsgIntegrityError == <<"exception", "sqlite3.IntegrityError">>
MsgNoUser == <<"error", "Username does not exist. Please try again or create a new user.">>
MsgBadPassword == <<"error", "Invalid password. Please try again.">>
MsgUserExists == <<"warning", "Username already exists. Please choose a different one.">>
MsgUserCreated == <<"success", "User created successfully. You can now login.">>

BankOps == {"create_account", "deposit", "withdraw", "balance_enquiry", "transaction_details"}

\* ------------------------------------------------------------------- state
VARIABLES
    accounts,      \* table accounts: set of rows [account_number, name, balance]
    transactions,  \* table transactions: rows in id order, transactions[i].id = i
    users,         \* table users: set of rows [username, password], password a digest
    logged_in,     \* st.session_state.logged_in
    current_page,  \* st.session_state.current_page
    call,          \* what the last handler run did: the Bank method called and the
                   \* account number, or login / create_user and the username
    messages,      \* the st.* messages of the last handler run, in order
    returned,      \* what the Bank call of the last handler run returned
    audit,         \* history: per created account, its initial balance and the
                   \* sums of the amounts that Account.deposit / withdraw applied
    pc,            \* StepSpec: per session, where its Bank.deposit / withdraw stands
    frame          \* StepSpec: per session, the arguments and locals of that call

vars == <<accounts, transactions, users, logged_in, current_page,
          call, messages, returned, audit, pc, frame>>

session == <<users, logged_in, current_page>>   \* what no Bank method writes
steps == <<pc, frame>>

\* ------------------------------------------------------------ hash_password
\* hashlib.sha256(password.encode()).hexdigest(): a digest, never the
\* password itself, and different for the different passwords of the model
hash_password(password) ==
    CASE password = "pw1" -> "sha256:0b14d5"
      [] password = "pw2" -> "sha256:6cf615"
      [] OTHER -> "sha256:e3b0c4"

\* ----------------------------------------------------------- SQL statements
\* SELECT * FROM users WHERE username = ?
SelectUsers(username) ==
    {r \in users : r.username = username}

\* user_exists with the WHERE clause on the wrong column
user_exists_ByPassword(username) ==
    \E r \in users : r.password = username

user_exists(username) ==
    SelectUsers(username) # {}

\* INSERT INTO users (username, password) VALUES (?, ?); username is the
\* PRIMARY KEY, an INSERT of a present key raises sqlite3.IntegrityError
InsertUser(tbl, username, password) ==
    tbl \cup {[username |-> username, password |-> password]}

\* SELECT * FROM accounts WHERE account_number = ?
SelectAccounts(account_number) ==
    {r \in accounts : r.account_number = account_number}

\* account_exists with the WHERE clause on the wrong column
account_exists_ByName(account_number) ==
    \E r \in accounts : r.name = account_number

account_exists(account_number) ==
    SelectAccounts(account_number) # {}

\* account_number TEXT PRIMARY KEY: an INSERT of a present key raises
\* sqlite3.IntegrityError and stores nothing
PrimaryKeyFree(tbl, account_number) ==
    \A r \in tbl : r.account_number # account_number

\* INSERT INTO accounts (account_number, name, balance) VALUES (?, ?, ?)
InsertAccount(tbl, account_number, name, balance) ==
    tbl \cup {[account_number |-> account_number, name |-> name, balance |-> balance]}

\* The UPDATE without its WHERE clause
UpdateBalance_NoWhere(tbl, account_number, balance) ==
    {[r EXCEPT !.balance = balance] : r \in tbl}

\* UPDATE accounts SET balance = ? WHERE account_number = ?
UpdateBalance(tbl, account_number, balance) ==
    {IF r.account_number = account_number THEN [r EXCEPT !.balance = balance] ELSE r
        : r \in tbl}

\* The INSERT with a fixed id and OR REPLACE: it overwrites the first row
InsertTransaction_Replace(tbl, account_number, transaction_desc, amount, now) ==
    LET row == [id |-> 1,
                account_number |-> account_number,
                transaction_desc |-> transaction_desc,
                amount |-> amount,
                timestamp |-> now]
    IN IF tbl = << >> THEN <<row>> ELSE [tbl EXCEPT ![1] = row]

\* INSERT INTO transactions (account_number, transaction_desc, amount):
\* id is AUTOINCREMENT, timestamp defaults to CURRENT_TIMESTAMP
InsertTransaction(tbl, account_number, transaction_desc, amount, now) ==
    Append(tbl, [id |-> Len(tbl) + 1,
                 account_number |-> account_number,
                 transaction_desc |-> transaction_desc,
                 amount |-> amount,
                 timestamp |-> now])

\* SELECT transaction_desc AS action, amount, timestamp: the fetched tuple
Columns(row) == <<row.transaction_desc, row.amount, row.timestamp>>

\* Stable sort of a sequence of (action, amount, timestamp) tuples, larger
\* timestamp first; tuples of equal timestamp keep their order
\* An unstable sort: a tuple goes behind the tuples of its timestamp
RECURSIVE InsertDesc_Unstable(_, _)
InsertDesc_Unstable(x, sorted) ==
    IF sorted = << >> THEN <<x>>
    ELSE IF Head(sorted)[3] < x[3] THEN <<x>> \o sorted
    ELSE <<Head(sorted)>> \o InsertDesc_Unstable(x, Tail(sorted))

RECURSIVE InsertDesc(_, _)
InsertDesc(x, sorted) ==
    IF sorted = << >> THEN <<x>>
    ELSE IF Head(sorted)[3] <= x[3] THEN <<x>> \o sorted
    ELSE <<Head(sorted)>> \o InsertDesc(x, Tail(sorted))

RECURSIVE StableSortDesc(_)
StableSortDesc(s) ==
    IF s = << >> THEN << >> ELSE InsertDesc(Head(s), StableSortDesc(Tail(s)))

\* The SELECT without the account_number condition
SelectTransactions_AnyAccount(account_number, transaction_desc) ==
    LET RECURSIVE Scan(_)
        Scan(i) == IF i > Len(transactions) THEN << >>
                   ELSE IF transactions[i].transaction_desc = transaction_desc
                        THEN <<Columns(transactions[i])>> \o Scan(i + 1)
                        ELSE Scan(i + 1)
    IN StableSortDesc(Scan(1))

\* SELECT ... FROM transactions WHERE account_number = ? AND
\* transaction_desc = ? ORDER BY timestamp DESC; rows of equal timestamp come
\* out in rowid order, as SQLite's sorter delivers them
SelectTransactions(account_number, transaction_desc) ==
    LET Match(row) == /\ row.account_number = account_number
                      /\ row.transaction_desc = transaction_desc
        RECURSIVE Scan(_)
        Scan(i) == IF i > Len(transactions) THEN << >>
                   ELSE IF Match(transactions[i])
                        THEN <<Columns(transactions[i])>> \o Scan(i + 1)
                        ELSE Scan(i + 1)
    IN StableSortDesc(Scan(1))

\* The sort without reverse=True: smaller timestamp first, stable
RECURSIVE Reversed(_)
Reversed(s) == IF s = << >> THEN << >> ELSE Append(Reversed(Tail(s)), Head(s))

SortReverse_Forward(rows) == Reversed(StableSortDesc(Reversed(rows)))

\* transactions.sort(key=lambda x: x[2], reverse=True): Python's sort is
\* stable, also with reverse=True
SortReverse(rows) == StableSortDesc(rows)

\* ------------------------------------------------------------ class Account
\* Account(account_number) followed by load_account_info()
get_account(account_number) ==
    IF SelectAccounts(account_number) # {}
    THEN LET row == CHOOSE r \in SelectAccounts(account_number) : TRUE
         IN [kind |-> "Account",
             account_number |-> row.account_number,
             name |-> row.name,
             balance |-> row.balance]
    ELSE None

\* Account.deposit that adds to self._balance but never runs the UPDATE
Account_deposit_NotStored(self, amount) ==
    IF amount > 0
    THEN [accounts |-> accounts, messages |-> << >>, applied |-> TRUE]
    ELSE [accounts |-> accounts, messages |-> <<MsgInvalidDeposit>>, applied |-> FALSE]

\* Account.deposit: the table after the call, the warning shown, and whether
\* the balance was changed
Account_deposit(self, amount) ==
    IF amount > 0
    THEN [accounts |-> UpdateBalance(accounts, self.account_number, self.balance + amount),
          messages |-> << >>,
          applied |-> TRUE]
    ELSE [accounts |-> accounts,
          messages |-> <<MsgInvalidDeposit>>,
          applied |-> FALSE]

\* Account.withdraw without the amount > 0 test
Account_withdraw_AnySign(self, amount) ==
    IF amount <= self.balance
    THEN [accounts |-> UpdateBalance(accounts, self.account_number, self.balance - amount),
          raised |-> None]
    ELSE [accounts |-> accounts,
          raised |-> IF amount > 0 THEN MsgInsufficientFunds ELSE MsgInvalidWithdrawal]

\* Account.withdraw that subtracts from self._balance but never runs the UPDATE
Account_withdraw_NotStored(self, amount) ==
    IF amount <= self.balance /\ amount > 0
    THEN [accounts |-> accounts, raised |-> None]
    ELSE [accounts |-> accounts,
          raised |-> IF amount > 0 THEN MsgInsufficientFunds ELSE MsgInvalidWithdrawal]

\* Account.withdraw: the table after the call and the message of the
\* InsufficientFundsError raised, None when none is raised
Account_withdraw(self, amount) ==
    IF amount <= self.balance /\ amount > 0
    THEN [accounts |-> UpdateBalance(accounts, self.account_number, self.balance - amount),
          raised |-> None]
    ELSE [accounts |-> accounts,
          raised |-> IF amount > 0 THEN MsgInsufficientFunds ELSE MsgInvalidWithdrawal]

\* Account.add_transaction
add_transaction(self, transaction_desc, amount, now) ==
    InsertTransaction(transactions, self.account_number, transaction_desc, amount, now)

\* --------------------------------------------------------------- class Bank
\* Each Bank method gives the tables after the call, the messages it shows,
\* what it returns, and the amounts Account.deposit / withdraw applied.
Bank_create_account(name, account_number, initial_balance) ==
    IF account_exists(account_number)
    THEN [accounts |-> accounts, messages |-> <<MsgAccountExists>>, created |-> FALSE]
    ELSE IF ~PrimaryKeyFree(accounts, account_number)
    THEN [accounts |-> accounts, messages |-> <<MsgIntegrityError>>, created |-> FALSE]
    ELSE [accounts |-> InsertAccount(accounts, account_number, name, initial_balance),
          messages |-> <<MsgAccountCreated>>,
          created |-> TRUE]

\* Bank.deposit that returns after the error message only when the amount
\* is invalid too, and otherwise logs the deposit under the number entered
Bank_deposit_LogsAnyway(account_number, amount, now) ==
    LET account == get_account(account_number) IN
    IF account = None
    THEN [accounts |-> accounts,
          transactions |-> IF amount > 0
                           THEN InsertTransaction(transactions, account_number,
                                                  Deposited, amount, now)
                           ELSE transactions,
          messages |-> <<MsgNoAccount>>, deposited |-> 0]
    ELSE LET d == Account_deposit(account, amount) IN
         [accounts |-> d.accounts,
          transactions |-> add_transaction(account, Deposited, amount, now),
          messages |-> d.messages,
          deposited |-> IF d.applied THEN amount ELSE 0]

Bank_deposit(account_number, amount, now) ==
    LET account == get_account(account_number) IN
    IF account = None
    THEN [accounts |-> accounts, transactions |-> transactions,
          messages |-> <<MsgNoAccount>>, deposited |-> 0]
    ELSE LET d == Account_deposit(account, amount) IN
         [accounts |-> d.accounts,
          transactions |-> add_transaction(account, Deposited, amount, now),
          messages |-> d.messages,
          deposited |-> IF d.applied THEN amount ELSE 0]

Bank_withdraw(account_number, amount, now) ==
    LET account == get_account(account_number) IN
    IF account = None
    THEN [accounts |-> accounts, transactions |-> transactions,
          messages |-> <<MsgNoAccount>>, withdrawn |-> 0]
    ELSE LET w == Account_withdraw(account, amount) IN
         IF w.raised = None
         THEN [accounts |-> w.accounts,
               transactions |-> add_transaction(account, Withdrawn, amount, now),
               messages |-> <<MsgWithdrawn>>,
               withdrawn |-> amount]
         ELSE [accounts |-> accounts, transactions |-> transactions,
               messages |-> <<w.raised>>, withdrawn |-> 0]

Bank_balance_enquiry(account_number) ==
    LET account == get_account(account_number) IN
    IF account # None
    THEN [returned |-> [kind |-> "tuple", balance |-> account.balance, name |-> account.name],
          messages |-> << >>]
    ELSE [returned |-> None, messages |-> <<MsgAccountNotFound>>]

\* Bank.transaction_details without the account_exists test
Bank_transaction_details_NoExistCheck(account_number) ==
    LET deposit_transactions == SelectTransactions(account_number, Deposited)
        withdrawal_transactions == SelectTransactions(account_number, Withdrawn)
        sorted == SortReverse(deposit_transactions \o withdrawal_transactions)
    IN IF sorted # << >>
       THEN [returned |-> [kind |-> "list", rows |-> sorted], messages |-> << >>]
       ELSE [returned |-> None, messages |-> <<MsgNoTransactions>>]

Bank_transaction_details(account_number) ==
    IF ~account_exists(account_number)
    THEN [returned |-> None, messages |-> <<MsgNoAccount>>]
    ELSE LET deposit_transactions == SelectTransactions(account_number, Deposited)
             withdrawal_transactions == SelectTransactions(account_number, Withdrawn)
             sorted == SortReverse(deposit_transactions \o withdrawal_transactions)
         IN IF sorted # << >>
            THEN [returned |-> [kind |-> "list", rows |-> sorted], messages |-> << >>]
            ELSE [returned |-> None, messages |-> <<MsgNoTransactions>>]

\* No Bank.deposit / withdraw is under way in any session
Idle ==
    /\ pc = [s \in Sessions |-> "idle"]
    /\ frame = [s \in Sessions |-> None]

\* bank.db as the CREATE TABLE IF NOT EXISTS statements leave a new file
EmptyBank ==
    /\ accounts = {}
    /\ transactions = << >>
    /\ call = [op |-> "none"]
    /\ messages = << >>
    /\ returned = None
    /\ audit = [n \in AccountNumbers |-> None]

\* The banking page right after the first login: one registered user, who
\* logged in (SessionSpec reaches this state from the start of the program)
Init ==
    /\ EmptyBank
    /\ users = {[username |-> "ann", password |-> hash_password("pw1")]}
    /\ logged_in = TRUE
    /\ current_page = "Banking App"
    /\ Idle

\* ------------------------------------------------- banking_app button handlers
\* The values CURRENT_TIMESTAMP can take at the next INSERT: the clock of
\* the datastore does not run backwards, and it may not have advanced
Now ==
    IF transactions = << >> THEN Timestamps
    ELSE {t \in Timestamps : t >= transactions[Len(transactions)].timestamp}

\* The model stays inside its bounds
WithinBounds(txs) == Len(txs) <= MaxTransactions

\* The routing without the logged_in test
BankingAppShown_Always == TRUE

\* if st.session_state.logged_in: if current_page == "Banking App": banking_app()
BankingAppShown ==
    logged_in /\ current_page = "Banking App"

\* else: the radio with the Login and Create User pages
LoginPagesShown == ~logged_in

\* "Create Account" button
CreateNewAccount(name, account_number, initial_balance) ==
    LET r == Bank_create_account(name, account_number, initial_balance) IN
    /\ BankingAppShown
    /\ accounts' = r.accounts
    /\ call' = [op |-> "create_account", account_number |-> account_number]
    /\ messages' = r.messages
    /\ returned' = None
    /\ audit' = IF r.created
                THEN [audit EXCEPT ![account_number] =
                        [kind |-> "opened", initial |-> initial_balance,
                         deposits |-> 0, withdrawals |-> 0]]
                ELSE audit
    /\ UNCHANGED <<transactions, session, steps>>

\* "Deposit" button
DepositFunds(account_number, amount) ==
    \E now \in Now :
        LET r == Bank_deposit(account_number, amount, now) IN
        /\ BankingAppShown
        /\ WithinBounds(r.transactions)
        /\ accounts' = r.accounts
        /\ transactions' = r.transactions
        /\ call' = [op |-> "deposit", account_number |-> account_number]
        /\ messages' = r.messages \o <<MsgDeposited>>
        /\ returned' = None
        /\ audit' = IF r.deposited # 0
                    THEN [audit EXCEPT ![account_number].deposits = @ + r.deposited]
                    ELSE audit
        /\ UNCHANGED <<session, steps>>

\* "Withdraw" button
WithdrawAmount(account_number, amount) ==
    \E now \in Now :
        LET r == Bank_withdraw(account_number, amount, now) IN
        /\ BankingAppShown
        /\ WithinBounds(r.transactions)
        /\ accounts' = r.accounts
        /\ transactions' = r.transactions
        /\ call' = [op |-> "withdraw", account_number |-> account_number]
        /\ messages' = r.messages
        /\ returned' = None
        /\ audit' = IF r.withdrawn # 0
                    THEN [audit EXCEPT ![account_number].withdrawals = @ + r.withdrawn]
                    ELSE audit
        /\ UNCHANGED <<session, steps>>

\* "Check Balance" button
BalanceEnquiry(account_number) ==
    LET r == Bank_balance_enquiry(account_number) IN
    /\ BankingAppShown
    /\ call' = [op |-> "balance_enquiry", account_number |-> account_number]
    /\ messages' = r.messages
    /\ returned' = r.returned
    /\ UNCHANGED <<accounts, transactions, audit, session, steps>>

\* "View History" button
TransactionDetails(account_number) ==
    LET r == Bank_transaction_details(account_number) IN
    /\ BankingAppShown
    /\ call' = [op |-> "transaction_details", account_number |-> account_number]
    /\ messages' = r.messages
    /\ returned' = r.returned
    /\ UNCHANGED <<accounts, transactions, audit, session, steps>>

Next ==
    \/ \E holder \in Holders, initial_balance \in Amounts :
            CreateNewAccount(holder[1], holder[2], initial_balance)
    \/ \E account_number \in AccountNumbers, amount \in Amounts :
            DepositFunds(account_number, amount)
    \/ \E account_number \in AccountNumbers, amount \in Amounts :
            WithdrawAmount(account_number, amount)
    \/ \E account_number \in AccountNumbers : BalanceEnquiry(account_number)
    \/ \E account_number \in AccountNumbers : TransactionDetails(account_number)

Spec == Init /\ [][Next]_vars

\* ------------------------------------------------ login and create-user pages
\* login(): the messages shown and whether the session is logged in after it
login(username, password) ==
    IF ~user_exists(username)
    THEN [messages |-> <<MsgNoUser>>, ok |-> FALSE]
    ELSE LET hashed_password == (CHOOSE r \in SelectUsers(username) : TRUE).password IN
         IF hashed_password # hash_password(password)
         THEN [messages |-> <<MsgBadPassword>>, ok |-> FALSE]
         ELSE [messages |-> << >>, ok |-> TRUE]

\* create_user(): the users table after it and the messages shown
create_user(new_username, new_password) ==
    IF user_exists(new_username)
    THEN [users |-> users, messages |-> <<MsgUserExists>>]
    ELSE IF \E r \in users : r.username = new_username
    THEN [users |-> users, messages |-> <<MsgIntegrityError>>]
    ELSE [users |-> InsertUser(users, new_username, hash_password(new_password)),
          messages |-> <<MsgUserCreated>>]

\* "Login" button
Login(username, password) ==
    LET r == login(username, password) IN
    /\ LoginPagesShown
    /\ logged_in' = (IF r.ok THEN TRUE ELSE logged_in)
    /\ current_page' = (IF r.ok THEN "Banking App" ELSE current_page)
    /\ call' = [op |-> "login", username |-> username]
    /\ messages' = r.messages
    /\ returned' = None
    /\ UNCHANGED <<accounts, transactions, users, audit, steps>>

\* "Create User" button
CreateUser(new_username, new_password) ==
    LET r == create_user(new_username, new_password) IN
    /\ LoginPagesShown
    /\ users' = r.users
    /\ call' = [op |-> "create_user", username |-> new_username]
    /\ messages' = r.messages
    /\ returned' = None
    /\ UNCHANGED <<accounts, transactions, logged_in, current_page, audit, steps>>

\* st.session_state at the first script run of a session, on a new bank.db
SessionInit ==
    /\ EmptyBank
    /\ users = {}
    /\ logged_in = FALSE
    /\ current_page = "Login"
    /\ Idle

\* What is entered on the banking page in SessionSpec
SessionHolders == {<<"Alice", "A1">>}
SessionAmounts == {0, 1}

SessionNext ==
    \/ \E username \in Usernames, password \in Passwords : Login(username, password)
    \/ \E username \in Usernames, password \in Passwords : CreateUser(username, password)
    \/ \E holder \in SessionHolders, initial_balance \in SessionAmounts :
            CreateNewAccount(holder[1], holder[2], initial_balance)
    \/ \E holder \in SessionHolders, amount \in SessionAmounts :
            DepositFunds(holder[2], amount)
    \/ \E holder \in SessionHolders, amount \in SessionAmounts :
            WithdrawAmount(holder[2], amount)
    \/ \E holder \in SessionHolders : BalanceEnquiry(holder[2])
    \/ \E holder \in SessionHolders : TransactionDetails(holder[2])

SessionSpec == SessionInit /\ [][SessionNext]_vars

\* ------------------------------ Bank.deposit / Bank.withdraw, statement by statement
\* Each session runs the script in a thread of its own, with a connection of
\* its own to bank.db; a statement with its commit is atomic, the statements
\* of two sessions interleave freely. frame[s] holds the arguments of the
\* call of session s, the Account object get_account built, and the length
\* of the transactions table when the call began.

\* A transactions row is left for every call under way
RoomToLog ==
    Len(transactions) + Cardinality({t \in Sessions : pc[t] # "idle"}) < MaxTransactions

\* No further call begins once MaxApplied balance changes were made to an account
FewApplied ==
    \A n \in AccountNumbers :
        IF audit[n] = None THEN TRUE
        ELSE audit[n].deposits + audit[n].withdrawals < MaxApplied

\* account = Bank.get_account(account_number); if not account: st.error, return
Load(s, op, account_number, amount) ==
    LET account == get_account(account_number) IN
    /\ BankingAppShown
    /\ pc[s] = "idle"
    /\ RoomToLog
    /\ FewApplied
    /\ IF account = None
       THEN /\ call' = [op |-> op, account_number |-> account_number]
            /\ messages' = IF op = "deposit" THEN <<MsgNoAccount, MsgDeposited>>
                           ELSE <<MsgNoAccount>>
            /\ returned' = None
            /\ UNCHANGED steps
       ELSE /\ pc' = [pc EXCEPT ![s] = "loaded"]
            /\ frame' = [frame EXCEPT ![s] =
                            [op |-> op, amount |-> amount, account |-> account,
                             warned |-> << >>, log_len |-> Len(transactions)]]
            /\ UNCHANGED <<call, messages, returned>>
    /\ UNCHANGED <<accounts, transactions, audit, session>>

\* account.deposit(amount) / account.withdraw(amount): the UPDATE and its commit
Store(s) ==
    LET f == frame[s]
        n == f.account.account_number
    IN
    /\ pc[s] = "loaded"
    /\ IF f.op = "deposit"
       THEN LET d == Account_deposit(f.account, f.amount) IN
            /\ accounts' = d.accounts
            /\ audit' = IF d.applied
                        THEN [audit EXCEPT ![n].deposits = @ + f.amount]
                        ELSE audit
            /\ pc' = [pc EXCEPT ![s] = "stored"]
            /\ frame' = [frame EXCEPT ![s].warned = d.messages]
            /\ UNCHANGED <<call, messages, returned>>
       ELSE LET w == Account_withdraw(f.account, f.amount) IN
            IF w.raised = None
            THEN /\ accounts' = w.accounts
                 /\ audit' = [audit EXCEPT ![n].withdrawals = @ + f.amount]
                 /\ pc' = [pc EXCEPT ![s] = "stored"]
                 /\ UNCHANGED <<frame, call, messages, returned>>
            ELSE /\ pc' = [pc EXCEPT ![s] = "idle"]
                 /\ frame' = [frame EXCEPT ![s] = None]
                 /\ call' = [op |-> "withdraw", account_number |-> n]
                 /\ messages' = <<w.raised>>
                 /\ returned' = None
                 /\ UNCHANGED <<accounts, audit>>
    /\ UNCHANGED <<transactions, session>>

\* account.add_transaction(...): the INSERT and its commit; the handler ends
Log(s) ==
    LET f == frame[s] IN
    /\ pc[s] = "stored"
    /\ \E now \in Now :
        transactions' = add_transaction(f.account,
                                        IF f.op = "deposit" THEN Deposited ELSE Withdrawn,
                                        f.amount, now)
    /\ pc' = [pc EXCEPT ![s] = "idle"]
    /\ frame' = [frame EXCEPT ![s] = None]
    /\ call' = [op |-> f.op, account_number |-> f.account.account_number]
    /\ messages' = IF f.op = "deposit" THEN f.warned \o <<MsgDeposited>>
                   ELSE <<MsgWithdrawn>>
    /\ returned' = None
    /\ UNCHANGED <<accounts, audit, session>>

\* The process dies: what was committed to bank.db stays, the calls under
\* way and the session state are gone
Crash ==
    /\ pc' = [s \in Sessions |-> "idle"]
    /\ frame' = [s \in Sessions |-> None]
    /\ logged_in' = FALSE
    /\ current_page' = "Login"
    /\ call' = [op |-> "crash"]
    /\ messages' = << >>
    /\ returned' = None
    /\ UNCHANGED <<accounts, transactions, users, audit>>

\* The banking page of logged-in sessions over a bank.db that holds one
\* account and no transaction yet
StepInit ==
    /\ \E initial_balance \in {0, 1} :
        /\ accounts = {[account_number |-> "A1", name |-> "Alice",
                        balance |-> initial_balance]}
        /\ audit = [n \in AccountNumbers |->
                        IF n = "A1"
                        THEN [kind |-> "opened", initial |-> initial_balance,
                              deposits |-> 0, withdrawals |-> 0]
                        ELSE None]
    /\ transactions = << >>
    /\ call = [op |-> "none"]
    /\ messages = << >>
    /\ returned = None
    /\ users = {[username |-> "ann", password |-> hash_password("pw1")]}
    /\ logged_in = TRUE
    /\ current_page = "Banking App"
    /\ Idle

\* Two sessions at once
StepNext ==
    \/ \E s \in Sessions, account_number \in AccountNumbers, amount \in Amounts :
            Load(s, "deposit", account_number, amount)
    \/ \E s \in Sessions, account_number \in AccountNumbers, amount \in Amounts :
            Load(s, "withdraw", account_number, amount)
    \/ \E s \in Sessions : Store(s)
    \/ \E s \in Sessions : Log(s)

StepSpec == StepInit /\ [][StepNext]_vars

\* One session, and a process that may die at any point and be started again
CrashNext ==
    \/ \E account_number \in AccountNumbers, amount \in Amounts :
            Load(1, "deposit", account_number, amount)
    \/ \E account_number \in AccountNumbers, amount \in Amounts :
            Load(1, "withdraw", account_number, amount)
    \/ Store(1)
    \/ Log(1)
    \/ Crash
    \/ \E password \in Passwords : Login("ann", password)

CrashSpec == StepInit /\ [][CrashNext]_vars

\* ===================================================================== claims
\* What the tables hold, read without the program's own accessors
Exists(n) == \E r \in accounts : r.account_number = n
RowOf(n) == CHOOSE r \in accounts : r.account_number = n
BalanceOf(n) == RowOf(n).balance
LastTransaction == transactions[Len(transactions)]
RecordsOf(n) == {i \in DOMAIN transactions : transactions[i].account_number = n}
Count(seq, x) == Cardinality({i \in DOMAIN seq : seq[i] = x})

RECURSIVE SumOf(_, _, _)
SumOf(n, desc, i) ==
    IF i = 0 THEN 0
    ELSE SumOf(n, desc, i - 1)
         + (IF transactions[i].account_number = n /\ transactions[i].transaction_desc = desc
            THEN transactions[i].amount ELSE 0)

\* The step is a run of the handler that calls this Bank method on account n
IsCall(op, n) == call' = [op |-> op, account_number |-> n]

\* One new row was appended to transactions, for account n, with this
\* description and amount
AppendedOne(n, desc, a) ==
    /\ Len(transactions') = Len(transactions) + 1
    /\ SubSeq(transactions', 1, Len(transactions)) = transactions
    /\ LastTransaction'.account_number = n
    /\ LastTransaction'.transaction_desc = desc
    /\ LastTransaction'.amount = a

\* C1: every stored account balance is >= 0 in every reachable state.
C1_BalanceNeverNegative ==
    \A r \in accounts : r.balance >= 0

\* C2: a deposit of amount > 0 into an existing account makes a following
\* balance_enquiry return old_balance + amount (and the holder's name), and
\* appends exactly one record, "Deposited" with that amount, for that account.
C2_DepositThenEnquiry ==
    [][\A n \in AccountNumbers, a \in Amounts :
        (IsCall("deposit", n) /\ a > 0 /\ Exists(n) /\ DepositFunds(n, a)) =>
            /\ Bank_balance_enquiry(n)'.returned =
                    [kind |-> "tuple", balance |-> BalanceOf(n) + a, name |-> RowOf(n).name]
            /\ AppendedOne(n, Deposited, a)]_vars

C2_Witness ==
    /\ call.op = "deposit"
    /\ messages = <<MsgDeposited>>
    /\ transactions # << >>
    /\ LastTransaction.account_number = call.account_number
    /\ LastTransaction.transaction_desc = Deposited
    /\ LastTransaction.amount > 0
    /\ BalanceOf(call.account_number) # LastTransaction.amount

\* C3: on an existing account, withdraw with 0 < amount <= balance succeeds,
\* sets the balance to old_balance - amount and appends exactly one
\* "Withdrawn" record of that amount; withdraw with amount > balance fails
\* with InsufficientFunds, leaves the balance unchanged and appends no record.
C3_WithdrawOutcome ==
    [][\A n \in AccountNumbers, a \in Amounts :
        (IsCall("withdraw", n) /\ Exists(n) /\ WithdrawAmount(n, a)) =>
            /\ (0 < a /\ a <= BalanceOf(n)) =>
                    /\ messages' = <<MsgWithdrawn>>
                    /\ BalanceOf(n)' = BalanceOf(n) - a
                    /\ AppendedOne(n, Withdrawn, a)
            /\ (a > BalanceOf(n)) =>
                    /\ messages' = <<MsgInsufficientFunds>>
                    /\ accounts' = accounts
                    /\ transactions' = transactions]_vars

\* C4: the stored balance of every account equals its initial balance plus
\* the amounts of its successful deposits minus the amounts of its successful
\* withdrawals, after any sequence of successful and failing calls.
C4_BalanceIsSumOfSuccessfulCalls ==
    \A r \in accounts :
        /\ audit[r.account_number] # None
        /\ r.balance = audit[r.account_number].initial
                       + audit[r.account_number].deposits
                       - audit[r.account_number].withdrawals

C4_Witness ==
    \E r \in accounts :
        /\ audit[r.account_number].deposits > 0
        /\ audit[r.account_number].withdrawals > 0
        /\ call = [op |-> "withdraw", account_number |-> r.account_number]
        /\ messages = <<MsgInsufficientFunds>>

\* C5: ledger and log agree: the stored balance of every account equals its
\* initial balance plus the amounts of its "Deposited" records minus the
\* amounts of its "Withdrawn" records.
C5_LedgerAndLogAgree ==
    \A r \in accounts :
        r.balance = audit[r.account_number].initial
                    + SumOf(r.account_number, Deposited, Len(transactions))
                    - SumOf(r.account_number, Withdrawn, Len(transactions))

\* C6: a deposit of amount <= 0 into an existing account is reported as an
\* invalid amount and changes nothing: the balance is unchanged and no
\* transaction record is appended.
C6_InvalidDepositChangesNothing ==
    [][\A n \in AccountNumbers, a \in Amounts :
        (IsCall("deposit", n) /\ a <= 0 /\ Exists(n) /\ DepositFunds(n, a)) =>
            /\ \E i \in DOMAIN messages' : messages'[i] = MsgInvalidDeposit
            /\ accounts' = accounts
            /\ transactions' = transactions]_vars

\* C7: a withdrawal of amount <= 0 from an existing account fails with the
\* invalid-amount error, which differs from the error of every withdrawal of
\* a positive amount above the balance, and leaves balance and log unchanged.
C7_InvalidWithdrawal ==
    [][\A n \in AccountNumbers, a \in Amounts :
        (IsCall("withdraw", n) /\ a <= 0 /\ Exists(n) /\ WithdrawAmount(n, a)) =>
            /\ messages' = <<MsgInvalidWithdrawal>>
            /\ \A b \in Amounts, t \in Timestamps :
                    (b > 0 /\ b > BalanceOf(n)) =>
                        /\ Bank_withdraw(n, b, t).messages = <<MsgInsufficientFunds>>
                        /\ Bank_withdraw(n, b, t).messages # messages'
            /\ accounts' = accounts
            /\ transactions' = transactions]_vars

C7_Witness ==
    /\ call.op = "withdraw"
    /\ Exists(call.account_number)
    /\ messages = <<MsgInvalidWithdrawal>>
    /\ BalanceOf(call.account_number) = 0

\* C8: create_account with an account number that already exists fails with
\* the already-exists warning, whatever name and initial balance it passes
\* and whatever happened to the account since its creation; the existing
\* row (holder name, balance) is untouched and stays the only one.
C8_CreateExistingRejected ==
    [][\A name \in Names, n \in AccountNumbers, b \in Amounts :
        (/\ IsCall("create_account", n)
         /\ Exists(n)
         /\ CreateNewAccount(name, n, b)) =>
            /\ messages' = <<MsgAccountExists>>
            /\ accounts' = accounts
            /\ transactions' = transactions
            /\ Cardinality({r \in accounts' : r.account_number = n}) = 1]_vars

C8_Witness ==
    /\ call.op = "create_account"
    /\ messages = <<MsgAccountExists>>
    /\ RecordsOf(call.account_number) # {}
    /\ BalanceOf(call.account_number) # audit[call.account_number].initial

\* C9: for an existing account with at least one record, transaction_details
\* returns exactly the records of that account, each once and none of another
\* account, in non-increasing timestamp order.
C9_HistoryIsTheAccountsRecords ==
    (call.op = "transaction_details" /\ RecordsOf(call.account_number) # {}) =>
        /\ returned.kind = "list"
        /\ Len(returned.rows) = Cardinality(RecordsOf(call.account_number))
        /\ \A i \in RecordsOf(call.account_number) :
                Count(returned.rows, Columns(transactions[i]))
                    = Cardinality({j \in RecordsOf(call.account_number) :
                                      Columns(transactions[j]) = Columns(transactions[i])})
        /\ \A p, q \in DOMAIN returned.rows :
                p < q => returned.rows[p][3] >= returned.rows[q][3]

C9_Witness ==
    /\ call.op = "transaction_details"
    /\ returned.kind = "list"
    /\ Len(returned.rows) = 2
    /\ returned.rows[1][3] > returned.rows[2][3]

\* The records of successful balance mutations: Account.deposit and
\* Account.withdraw change a balance only for an amount > 0
RECURSIVE Applied(_)
Applied(rows) ==
    IF rows = << >> THEN << >>
    ELSE IF Head(rows)[2] > 0 THEN <<Head(rows)>> \o Applied(Tail(rows))
    ELSE Applied(Tail(rows))

RECURSIVE NewestCallFirst(_, _)
NewestCallFirst(n, i) ==
    IF i = 0 THEN << >>
    ELSE IF transactions[i].account_number = n
         THEN <<Columns(transactions[i])>> \o NewestCallFirst(n, i - 1)
         ELSE NewestCallFirst(n, i - 1)

\* C10: the history is newest first in call order: the record of a successful
\* mutation Y made after a successful mutation X on the same account comes
\* before the record of X, for every timing of the two calls.
C10_NewestFirstInCallOrder ==
    (call.op = "transaction_details" /\ returned.kind = "list") =>
        Applied(returned.rows)
            = Applied(NewestCallFirst(call.account_number, Len(transactions)))

\* C10 as amended: when the record of Y carries a strictly later timestamp
\* than the record of X, Y's record comes before X's record in the history.
C10_NewestFirstByTimestamp ==
    call.op = "transaction_details" =>
        \A i, j \in RecordsOf(call.account_number) :
            (/\ i < j
             /\ transactions[i].amount > 0
             /\ transactions[j].amount > 0
             /\ transactions[i].timestamp < transactions[j].timestamp) =>
                /\ returned.kind = "list"
                /\ \E p, q \in DOMAIN returned.rows :
                        /\ p < q
                        /\ returned.rows[p] = Columns(transactions[j])
                        /\ returned.rows[q] = Columns(transactions[i])

C10_Witness ==
    /\ call.op = "transaction_details"
    /\ returned.kind = "list"
    /\ \E i, j \in RecordsOf(call.account_number) :
            /\ i < j
            /\ transactions[i].amount > 0
            /\ transactions[j].amount > 0
            /\ transactions[i].transaction_desc = Deposited
            /\ transactions[j].transaction_desc = Withdrawn
            /\ transactions[i].timestamp < transactions[j].timestamp

C12_UnknownAccountChangesNothing ==
    [][/\ (/\ call'.op \in BankOps \ {"create_account"}
           /\ ~Exists(call'.account_number)) =>
                /\ messages' # << >>
                /\ messages'[1] \in {MsgNoAccount, MsgAccountNotFound}
                /\ returned' = None
                /\ accounts' = accounts
                /\ transactions' = transactions
       /\ \A i \in DOMAIN transactions' :
                \E r \in accounts' : r.account_number = transactions'[i].account_number
      ]_vars

C12_Witness ==
    /\ call.op = "deposit"
    /\ ~Exists(call.account_number)
    /\ messages[1] = MsgNoAccount
    /\ Len(transactions) = 2

\* C16: in the sequence transaction_details returns, among the records of
\* one timestamp every "Deposited" record comes before every "Withdrawn"
\* record, in whatever order the operations were performed.
C16_DepositsFirstAtEqualTimestamp ==
    (call.op = "transaction_details" /\ returned.kind = "list") =>
        \A p, q \in DOMAIN returned.rows :
            (/\ returned.rows[p][3] = returned.rows[q][3]
             /\ returned.rows[p][1] = Deposited
             /\ returned.rows[q][1] = Withdrawn) => p < q

C16_Witness ==
    /\ call.op = "transaction_details"
    /\ returned.kind = "list"
    /\ Len(returned.rows) = 2
    /\ returned.rows[1][1] = Deposited
    /\ returned.rows[2][1] = Withdrawn
    /\ returned.rows[1][3] = returned.rows[2][3]
    /\ transactions[1].transaction_desc = Withdrawn
    /\ transactions[2].transaction_desc = Deposited
    /\ transactions[1].account_number = transactions[2].account_number

\* C17: the Deposit handler shows "Funds Deposited successfully" only if the
\* deposit raised the balance of the account by the amount entered.
C17_SuccessOnlyAfterDeposit ==
    [][\A n \in AccountNumbers, a \in Amounts :
        (/\ IsCall("deposit", n)
         /\ DepositFunds(n, a)
         /\ \E i \in DOMAIN messages' : messages'[i] = MsgDeposited) =>
            /\ Exists(n)
            /\ a > 0
            /\ BalanceOf(n)' = BalanceOf(n) + a]_vars

\* C19: a Bank operation on account A leaves every other account's row, every
\* record written before (of A or of another account) and the users table as
\* they were; the records it adds are records of A.
C19_OnlyTheNamedAccountChanges ==
    [][call'.op \in BankOps =>
        LET n == call'.account_number IN
        /\ {r \in accounts' : r.account_number # n} = {r \in accounts : r.account_number # n}
        /\ Len(transactions') >= Len(transactions)
        /\ SubSeq(transactions', 1, Len(transactions)) = transactions
        /\ \A i \in (Len(transactions) + 1)..Len(transactions') :
                transactions'[i].account_number = n
        /\ users' = users]_vars

C19_Witness ==
    /\ call.op = "withdraw"
    /\ messages = <<MsgWithdrawn>>
    /\ Len(transactions) = 2
    /\ transactions[1].account_number # call.account_number
    /\ transactions[2].account_number = call.account_number
    /\ users # {}

\* ------------------------------------------------------- claims, SessionSpec
\* C13: create_user with a username that exists shows the already-exists
\* warning and stores nothing; otherwise it stores the digest of the password
\* under the username; login never changes the users table; no stored row is
\* ever changed or removed, and a username has one row at most.
C13_RegisterOnce ==
    [][/\ \A u \in Usernames, p \in Passwords :
            (call' = [op |-> "create_user", username |-> u] /\ CreateUser(u, p)) =>
                IF \E r \in users : r.username = u
                THEN users' = users /\ messages' = <<MsgUserExists>>
                ELSE users' = users \cup {[username |-> u, password |-> hash_password(p)]}
       /\ call'.op = "login" => users' = users
       /\ users \subseteq users'
       /\ \A r1, r2 \in users' : r1.username = r2.username => r1 = r2
      ]_vars

C13_Witness ==
    /\ call.op = "create_user"
    /\ messages = <<MsgUserExists>>
    /\ Cardinality(users) = 2
    /\ \E r1, r2 \in users : r1.password # r2.password

\* C18: logged_in is false when the session starts; it becomes true only by
\* a login whose username is in the users table with the digest of the
\* password entered; a Bank operation runs only in a state with logged_in.
C18_BankOnlyAfterLogin ==
    /\ logged_in = FALSE
    /\ [][/\ (~logged_in /\ logged_in') =>
                \E u \in Usernames, p \in Passwords :
                    /\ call' = [op |-> "login", username |-> u]
                    /\ Login(u, p)
                    /\ [username |-> u, password |-> hash_password(p)] \in users
          /\ call'.op \in BankOps => logged_in
         ]_vars

C18_Witness ==
    /\ logged_in
    /\ call.op = "deposit"
    /\ Cardinality(users) = 2
    /\ accounts # {}

\* -------------------------------------------------- claims, StepSpec, CrashSpec
\* C14: no update is lost, also when two sessions deposit to or withdraw from
\* one account at the same time: the stored balance is the initial balance
\* plus the deposits applied minus the withdrawals applied.
C14_NoUpdateLost ==
    \A r \in accounts :
        r.balance = audit[r.account_number].initial
                    + audit[r.account_number].deposits
                    - audit[r.account_number].withdrawals

\* C15: the balance update of a deposit or withdrawal is committed in a step
\* of its own, before the record is inserted; a crash after that step leaves
\* bank.db with the balance changed by the amount and the transactions table
\* as it was when the call began.
C15_CrashLeavesUnloggedChange ==
    [][\A s \in Sessions :
        pc[s] # "idle" =>
          \E r \in accounts' :
            /\ r.account_number = frame[s].account.account_number
            /\ (pc[s] = "loaded" /\ pc'[s] = "stored" /\ frame[s].op = "withdraw") =>
                    /\ r.balance = frame[s].account.balance - frame[s].amount
                    /\ transactions' = transactions
            /\ (pc[s] = "loaded" /\ pc'[s] = "stored" /\ frame[s].op = "deposit"
                    /\ frame[s].amount > 0) =>
                    /\ r.balance = frame[s].account.balance + frame[s].amount
                    /\ transactions' = transactions
            /\ (pc[s] = "stored" /\ call'.op = "crash" /\ frame[s].amount > 0) =>
                    /\ r.balance = frame[s].account.balance
                                   + (IF frame[s].op = "deposit" THEN frame[s].amount
                                      ELSE 0 - frame[s].amount)
                    /\ r.balance # frame[s].account.balance
                    /\ Len(transactions') = frame[s].log_len
                    /\ accounts' = accounts
      ]_vars

C15_Witness ==
    /\ call.op = "crash"
    /\ transactions = << >>
    /\ \E r \in accounts :
            r.balance < audit[r.account_number].initial

====
